---- MODULE Spec2Model ----
(***************************************************************************)
(* The temporal layer pipeline of the cattle-tracking map front-ends.      *)
(*                                                                         *)
(* Two variants of the page are modelled, chosen by `variant`:             *)
(*   "latest"  src/app.js              refreshDataLayers over data/latest  *)
(*   "dates"   src/unnamed/part_001    initDates, date navigation and      *)
(*                                     refreshLayers over data/<date>      *)
(* A refresh routine is an async function: it runs synchronously up to an  *)
(* `await`, is suspended there, and is resumed when the fetch settles.     *)
(* Every action below is one such synchronous run (an event handler up to  *)
(* its first await, or a resumption up to the next await or the return).   *)
(***************************************************************************)
EXTENDS Integers, Sequences, FiniteSets, TLC

\* ---------------------------------------------------------------- bounds
\* Number of layer checkboxes present in the page.
NumLayers == 2
\* Number of refresh cycles that may be started in one behaviour.
MaxCycles == 2
\* Number of distinct time keys an index document may list.
NumKeys == 3
\* Greatest length of the `bins` and `counts` arrays of a histogram document.
MaxBins == 3
\* Number of equal steps between 0 and 1 in the grid of sample numbers.
GridSteps == 10
\* Lead times run from -MaxLead to MaxLead days.
MaxLead == 100

\* ------------------------------------------------------------- constants
\* dateSelect.value === "" (no option selected), and an absent `latest`.
NoDate == 0

\* The checkboxes of the page in document order (input[data-layer]); each
\* names a key of LAYER_CONFIG.
LayerOrder == SubSeq(<<"presence", "hotspots", "corridors">>, 1, NumLayers)

Layers == {LayerOrder[i] : i \in 1..Len(LayerOrder)}

\* LAYER_CONFIG[key].file
FileOf(key) == key \o ".geojson"

\* Time keys are ISO dates; they are represented by their day number, so
\* that the lexicographic order of Array.prototype.sort on the ISO strings
\* is the numeric order, and diffDays is a subtraction.  Keys are a week
\* apart, as in the index document of the end-to-end scenario.
Keys == {1 + 7 * i : i \in 0..(NumKeys - 1)}

\* What one HTTP request for a document can end in.
\*   reject    fetch() rejects (network failure)
\*   http      res.ok is false
\*   badjson   res.json() rejects (body is not JSON)
\*   falsy     the body parses to null / false / 0 / ""
\*   badshape  the body parses to an object that is not GeoJSON
\*   fc        a feature collection whose bounds are valid
\*   fcEmpty   a feature collection without features (bounds invalid)
\*   fcBad     a feature collection on which getBounds() throws
Outcomes == {"reject", "http", "badjson", "falsy", "badshape", "fc", "fcEmpty", "fcBad"}

\* The outcomes that differ in more than the bounds of the overlay built.
LoadOutcomes == {"reject", "http", "badjson", "falsy", "badshape", "fc"}

\* What the request for data/<date>/meta.json can end in: no document, a
\* document without `updated`, with `updated`, with `updated` and `notes`.
MetaOutcomes == {"reject", "http", "badjson", "falsy", "plain", "updated", "updatedNotes"}

\* ----------------------------------------------------------------- state
VARIABLES
  variant,        \* which page is running
  checked,        \* cb.checked of every layer checkbox
  onMap,          \* the GeoJSON overlays that are on the Leaflet map
  layersOnMap,    \* const layersOnMap = {} : key -> overlay
  status,         \* statusEl.textContent
  view,           \* the overlays whose bounds the last fitBounds united
  cycles,         \* the activations of the refresh routine that are suspended
  nStarted,       \* how many activations were created
  last,           \* what the activation that returned last had done (history)
  initPc,         \* where the page's start-up is
  availableDates, \* let availableDates = []
  baseDate,       \* let baseDate = null
  options,        \* the <option> values of dateSelect
  dateValue,      \* dateSelect.value
  prevDisabled,   \* prevBtn.disabled
  nextDisabled,   \* nextBtn.disabled
  leadTag,        \* leadTag.textContent (the signed lead)
  lastEvent,      \* the event whose handler or continuation ran last (history)
  probe,          \* one call of a function and what it returned
  detectionsToggle, \* detectionsToggle.checked (detections page)
  detectionsLayer,  \* let detectionsLayer = null (detections page)
  ndviChart,      \* let ndviChart = null : the document the chart shows
  ndviStats,      \* ndviStatsEl.textContent
  ndviPending     \* calls of loadNdviHistogram suspended on their fetch

dateVars == <<initPc, availableDates, baseDate, options, dateValue,
              prevDisabled, nextDisabled, leadTag>>
vars == <<variant, checked, onMap, layersOnMap, status, view, cycles,
          nStarted, last, initPc, availableDates, baseDate,
          options, dateValue, prevDisabled, nextDisabled, leadTag, lastEvent, probe,
          detectionsToggle, detectionsLayer, ndviChart, ndviStats, ndviPending>>

\* The state of the detections page and of the NDVI histogram panel.
sideVars == <<detectionsToggle, detectionsLayer, ndviChart, ndviStats, ndviPending>>

\* ------------------------------------------------------------- overlays
\* An overlay is one object returned by L.geoJSON: the activation that built
\* it, its layer key, and the date and lead time it was built with.
NoLayer == [cyc |-> 0, key |-> "none", date |-> NoDate, lead |-> 0, box |-> "none"]

Overlay(c, key, date, lead) ==
  [cyc |-> c, key |-> key, date |-> date, lead |-> lead, box |-> "valid"]

\* `${DATA_ROOT}/${cfg.file}` and `data/${dateStr}/${cfg.file}`
UrlLatest(key) == [root |-> "data/latest", date |-> NoDate, file |-> FileOf(key)]

UrlDate(dateStr, key) == [root |-> "data", date |-> dateStr, file |-> FileOf(key)]

\* ------------------------------------------------------------ fetchJSON
\* async function fetchJSON(url): null on a rejected fetch, on !res.ok and
\* on a body that does not parse; otherwise the parsed body.
FetchJSON(o) ==
  IF o \in {"reject", "http", "badjson"} THEN "null" ELSE o

\* !geo : the parsed body is null or another falsy value.
Falsy(doc) == doc \in {"null", "falsy"}

\* The bounds test without b.isValid().
BoundsPushedUnlessThrown(doc) == doc \in {"fc", "fcEmpty"}

\* layer.getBounds?.() followed by b && b.isValid(), inside try/catch: the
\* overlay's bounds are pushed only when they were computed and are valid.
BoundsPushed(doc) == doc = "fc"

\* What getBounds() gives on the overlay built from a document: a valid
\* box, an invalid box (no features), or an exception.
BoxOf(doc) == IF doc = "fcEmpty" THEN "invalid" ELSE IF doc = "fcBad" THEN "throws" ELSE "valid"

\* The overlay L.geoJSON builds from the document.
Boxed(layer, doc) == [layer EXCEPT !.box = BoxOf(doc)]

\* loadLayer(key) of the data/latest page.  L.geoJSON(geo, ...) is called
\* outside any try block: Leaflet's geometryToLayer throws "Invalid GeoJSON
\* object." on a parsed document that is no GeoJSON, and the throw rejects
\* the promise loadLayer returned.
LoadLayer(c, key, o) ==
  LET geo == FetchJSON(o)
      url == UrlLatest(key)
  IN  IF Falsy(geo) THEN [kind |-> "res", ok |-> FALSE, layer |-> NoLayer, url |-> url]
      ELSE IF geo = "badshape" THEN [kind |-> "throw", ok |-> FALSE, layer |-> NoLayer, url |-> url]
      ELSE [kind |-> "res", ok |-> TRUE, layer |-> Boxed(Overlay(c, key, NoDate, 0), geo), url |-> url]


\* loadGeoJSONLayer(key, url, leadDays) of the date page: null when
\* fetchJSON gave nothing, otherwise L.geoJSON(geo, ...), which is again
\* called outside any try block.
LoadGeoJSONLayer(c, key, url, leadDays, o) ==
  LET geo == FetchJSON(o)
  IN  IF Falsy(geo) THEN [kind |-> "null", layer |-> NoLayer]
      ELSE IF geo = "badshape" THEN [kind |-> "throw", layer |-> NoLayer]
      ELSE [kind |-> "layer", layer |-> Boxed(Overlay(c, key, url.date, leadDays), geo)]

\* A call of the layer fetcher with its arguments, the outcome of the
\* request it made, and what it returned.
NoProbe == [fn |-> "none", key |-> "none", url |-> UrlLatest("none"), o |-> "none",
            out |-> [kind |-> "none", ok |-> FALSE, layer |-> NoLayer, url |-> UrlLatest("none")]]

\* The shape of a property that should be an array: absent, present but
\* not an array, or an array of some length.
Absent == 0 - 2

NotArray == 0 - 1

\* No chart was created: ndviChart === null.
NoChart == [bins |-> Absent, counts |-> Absent, stats |-> FALSE]

\* The detections page and the histogram panel before anything ran.
SideInit ==
  /\ detectionsToggle = FALSE
  /\ detectionsLayer = NoLayer
  /\ ndviChart = NoChart
  /\ ndviStats = "none"
  /\ ndviPending = 0

\* ------------------------------------------------------------ activations
\* The locals of one activation of the refresh routine.  `seen` and `alone`
\* are history: what each fetch of the activation ended in, and whether no
\* other activation was started or suspended during its life.
Idle == [pc |-> "idle", idx |-> 0, loaded |-> 0, missing |-> <<>>, bounds |-> <<>>,
         seen |-> [k \in Layers |-> "none"], dateStr |-> NoDate, lead |-> 0,
         alone |-> FALSE]

\* An activation that returned (or threw) keeps no locals.
Ended(how) == [Idle EXCEPT !.pc = how]

NoLast == [c |-> 0, loaded |-> 0, missing |-> <<>>, seen |-> [k \in Layers |-> "none"],
           alone |-> FALSE, chk |-> [k \in Layers |-> FALSE], date |-> NoDate,
           tracked |-> {}, profile |-> [k \in Layers |-> 0],
           rep |-> FALSE, ptracked |-> {}, pprofile |-> [k \in Layers |-> 0]]

InFlight(cs) == {d \in DOMAIN cs : cs[d].pc \in {"fetch", "meta"}}

\* Starting an activation ends the solitude of those that are suspended.
Disturbed(cs) ==
  [d \in DOMAIN cs |-> IF d \in InFlight(cs) THEN [cs[d] EXCEPT !.alone = FALSE] ELSE cs[d]]

\* The position in LayerOrder of the first checked checkbox at or after
\* `from` (for (const cb of layerChecks) { if (!cb.checked) continue; ... }),
\* read from the checkboxes as they are when the loop gets there; 0 if none.
NextChecked(chk, from) ==
  LET S == {j \in from..Len(LayerOrder) : chk[LayerOrder[j]]}
  IN  IF S = {} THEN 0 ELSE CHOOSE j \in S : \A m \in S : j <= m

Range(f) == {f[x] : x \in DOMAIN f}

\* How many overlays of each layer key are on the map.
MapProfile(map) == [k \in Layers |-> Cardinality({ov \in map : ov.key = k})]

TrackedKeys(table) == {k \in Layers : table[k] # NoLayer}

\* The clearing step without map.removeLayer.
ClearedMapNoRemove(map, table) == map

\* for (const k of Object.keys(layersOnMap)) map.removeLayer(layersOnMap[k])
ClearedMap(map, table) == map \ Range(table)

\* ... delete layersOnMap[k]
ClearedTable(table) == [k \in Layers |-> NoLayer]

\* res.layer.addTo(map); layersOnMap[key] = res.layer
AddedMap(map, layer) == map \cup {layer}

AddedTable(table, key, layer) == [table EXCEPT ![key] = layer]

\* setStatus texts
St(text, loaded, missing, date, meta) ==
  [text |-> text, loaded |-> loaded, missing |-> missing, date |-> date, meta |-> meta]

\* The final status without the list of missing layers.
FinalStatusLatestNoMissing(loaded, missing) ==
  IF loaded = 0
    THEN St("No GeoJSON layers loaded (none selected).", 0, <<>>, NoDate, "none")
    ELSE St("Loaded n layer(s) from data/latest.", loaded, <<>>, NoDate, "none")

\* The final status of refreshDataLayers (src/app.js).
FinalStatusLatest(loaded, missing) ==
  IF loaded = 0
    THEN IF Len(missing) > 0
           THEN St("No GeoJSON layers loaded. Missing:", 0, missing, NoDate, "none")
           ELSE St("No GeoJSON layers loaded (none selected).", 0, <<>>, NoDate, "none")
    ELSE IF Len(missing) > 0
           THEN St("Loaded n layer(s). Missing:", loaded, missing, NoDate, "none")
           ELSE St("Loaded n layer(s) from data/latest.", loaded, <<>>, NoDate, "none")

\* if (bounds.length > 0) map.fitBounds(combined.pad(0.15))
Fitted(bounds, old) == IF Len(bounds) > 0 THEN Range(bounds) ELSE old

\* What an activation leaves behind when it returns (history): its locals,
\* the checkboxes, the tracked keys and the map's profile at its return.
\* `rep` says that it repeated the activation before it: both ran with no
\* other activation beside them, one right after the other, with the same
\* checkboxes, the same date and the same outcome of every fetch; the
\* earlier one's tracked keys and profile are then kept for comparison.
Result(c, cyc, map, table, chk) ==
  LET r == /\ last.c # 0 /\ last.alone /\ cyc.alone
           /\ last.chk = chk /\ last.seen = cyc.seen /\ last.date = cyc.dateStr
  IN  [c |-> c, loaded |-> cyc.loaded, missing |-> cyc.missing, seen |-> cyc.seen,
       alone |-> cyc.alone, chk |-> chk, date |-> cyc.dateStr,
       tracked |-> TrackedKeys(table), profile |-> MapProfile(map),
       rep |-> r,
       ptracked |-> IF r THEN last.tracked ELSE {},
       pprofile |-> IF r THEN last.profile ELSE [k \in Layers |-> 0]]

\* The result of the activation that returned last is remembered while the
\* activations after it run one at a time (history).
KeptLast == IF InFlight(cycles) = {} /\ last.alone THEN last ELSE NoLast

\* ---------------------------------------------------- refreshDataLayers
\* The loop of refreshDataLayers from checkbox position `from` on, for the
\* activation c with locals `cyc`, the other activations `cs` and the map
\* state so far: it either suspends on the next checked layer's fetch or
\* leaves the loop, fits the view, writes the final status and returns.
LatestContinue(c, cyc, cs, from, map, table, loading, keep) ==
  LET j == NextChecked(checked', from)
  IN  /\ onMap' = map
      /\ layersOnMap' = table
      /\ IF j # 0
           THEN /\ cycles' = [cs EXCEPT ![c] = [cyc EXCEPT !.pc = "fetch", !.idx = j]]
                /\ status' = IF loading THEN St("Loading data/latest", 0, <<>>, NoDate, "none")
                                        ELSE status
                /\ view' = view
                /\ last' = keep
           ELSE /\ cycles' = [cs EXCEPT ![c] = Ended("done")]
                /\ view' = Fitted(cyc.bounds, view)
                /\ status' = FinalStatusLatest(cyc.loaded, cyc.missing)
                /\ last' = Result(c, cyc, map, table, checked')

\* refreshDataLayers() from its first line to its first await: the status
\* "Loading", the clearing step, then the loop.
LatestStart ==
  /\ nStarted < MaxCycles
  /\ nStarted' = nStarted + 1
  /\ LatestContinue(nStarted + 1, [Idle EXCEPT !.alone = InFlight(cycles) = {}],
                    Disturbed(cycles), 1,
                    ClearedMap(onMap, layersOnMap), ClearedTable(layersOnMap), TRUE,
                    KeptLast)

\* layerChecks.forEach(cb => cb.addEventListener("change", refreshDataLayers))
LatestToggle(k) ==
  /\ variant = "latest"
  /\ initPc = "ready"
  /\ lastEvent' = "toggle"
  /\ checked' = [checked EXCEPT ![k] = ~checked[k]]
  /\ LatestStart
  /\ UNCHANGED <<variant, probe, sideVars>>
  /\ UNCHANGED dateVars

\* reloadBtn.addEventListener("click", refreshDataLayers)
LatestReload ==
  /\ variant = "latest"
  /\ initPc = "ready"
  /\ lastEvent' = "reload"
  /\ checked' = checked
  /\ LatestStart
  /\ UNCHANGED <<variant, probe, sideVars>>
  /\ UNCHANGED dateVars

\* `const res = await loadLayer(key)` settles with outcome o for the
\* activation c, which then runs the rest of the loop body and goes on.
LatestResume(c, o) ==
  /\ variant = "latest"
  /\ lastEvent' = "settled"
  /\ cycles[c].pc = "fetch"
  /\ checked' = checked
  /\ LET cyc == cycles[c]
         key == LayerOrder[cyc.idx]
         res == LoadLayer(c, key, o)
     IN  IF res.kind = "throw"
           THEN /\ cycles' = [cycles EXCEPT ![c] = Ended("threw")]
                /\ last' = NoLast
                /\ UNCHANGED <<onMap, layersOnMap, status, view>>
           ELSE IF ~res.ok
             THEN LatestContinue(c,
                    [cyc EXCEPT !.missing = Append(@, [key |-> key, url |-> res.url]),
                                !.seen[key] = "fail"],
                    cycles, cyc.idx + 1, onMap, layersOnMap, FALSE, last)
             ELSE LatestContinue(c,
                    [cyc EXCEPT !.loaded = @ + 1,
                                !.seen[key] = "ok",
                                !.bounds = IF BoundsPushed(FetchJSON(o))
                                             THEN Append(@, res.layer) ELSE @],
                    cycles, cyc.idx + 1,
                    AddedMap(onMap, res.layer),
                    AddedTable(layersOnMap, key, res.layer), FALSE, last)
  /\ UNCHANGED <<variant, nStarted, probe, sideVars>>
  /\ UNCHANGED dateVars

\* The request of activation c never settles, and the hang is treated as a
\* failure after which the loop goes on.
LatestHangSkipped(c) ==
  /\ variant = "latest"
  /\ lastEvent' = "hang"
  /\ cycles[c].pc = "fetch"
  /\ checked' = checked
  /\ LatestContinue(c, [cycles[c] EXCEPT !.seen[LayerOrder[cycles[c].idx]] = "hung"],
                    cycles, cycles[c].idx + 1, onMap, layersOnMap, FALSE, last)
  /\ UNCHANGED <<variant, nStarted, probe, sideVars>>
  /\ UNCHANGED dateVars

\* The request that activation c awaits never settles (fetchJSON sets no
\* timeout): `await loadLayer(key)` never returns, and the activation stays
\* suspended at it.  `seen` notes the hang (history).
LatestHang(c) ==
  /\ variant = "latest"
  /\ lastEvent' = "hang"
  /\ cycles[c].pc = "fetch"
  /\ cycles' = [cycles EXCEPT ![c] = [cycles[c] EXCEPT !.pc = "hung",
                                        !.seen[LayerOrder[cycles[c].idx]] = "hung"]]
  /\ UNCHANGED <<variant, checked, onMap, layersOnMap, status, view, nStarted, last,
                 probe, sideVars>>
  /\ UNCHANGED dateVars

\* ------------------------------------------------------------------ Init
\* The data/latest page after its script has run: the checkboxes are as the
\* document declares them, the status is "Ready." and nothing is on the
\* map; the script's last statement then calls refreshDataLayers().
InitLatest ==
  /\ variant = "latest"
  /\ checked \in [Layers -> BOOLEAN]
  /\ onMap = {}
  /\ layersOnMap = [k \in Layers |-> NoLayer]
  /\ view = {}
  /\ status = St("Ready. NDVI overlay + GeoJSON optional layers.", 0, <<>>, NoDate, "none")
  /\ nStarted = 0
  /\ cycles = [c \in 1..MaxCycles |-> Idle]
  /\ last = NoLast
  /\ initPc = "boot"
  /\ availableDates = <<>>
  /\ baseDate = NoDate
  /\ options = <<>>
  /\ dateValue = NoDate
  /\ prevDisabled = FALSE
  /\ nextDisabled = FALSE
  /\ leadTag = [nan |-> FALSE, days |-> 0]
  /\ lastEvent = "load"
  /\ probe = NoProbe
  /\ SideInit

\* src/app.js: the closing call refreshDataLayers() of the script.
LatestBoot ==
  /\ variant = "latest"
  /\ lastEvent' = "boot"
  /\ initPc = "boot"
  /\ initPc' = "ready"
  /\ checked' = checked
  /\ LatestStart
  /\ UNCHANGED <<variant, probe, sideVars, availableDates, baseDate, options, dateValue,
                 prevDisabled, nextDisabled, leadTag>>

\* ----------------------------------------------------------- date page
\* diffDays(aISO, bISO): both dates at UTC midnight, so the rounded quotient
\* is the difference of the day numbers.
DiffDays(a, b) == a - b

\* const lead = baseDate ? diffDays(dateStr, baseDate) : 0, as a number or
\* NaN (diffDays of the empty string).
LeadOf(current, base) ==
  IF base = NoDate THEN [nan |-> FALSE, days |-> 0]
  ELSE IF current = NoDate THEN [nan |-> TRUE, days |-> 0]
  ELSE [nan |-> FALSE, days |-> DiffDays(current, base)]

\* availableDates.indexOf(current), counted from 1; 0 when absent.
IndexOf(seq, x) ==
  LET S == {i \in 1..Len(seq) : seq[i] = x}
  IN  IF S = {} THEN 0 ELSE CHOOSE i \in S : \A m \in S : i <= m

\* indexData.dates.slice().sort()
SortedDates(dates) == SortSeq(dates, LAMBDA a, b : a < b)

\* dateSelect.value = v : the option with that value becomes selected; when
\* no option has it, none is selected and the value reads "".
SelectValue(opts, v) == IF v \in Range(opts) THEN v ELSE NoDate

\* indexData.latest || availableDates[availableDates.length - 1]
BaseDateOf(latest, avail) == IF latest # NoDate THEN latest ELSE avail[Len(avail)]

\* prevBtn.disabled = idx <= 0
PrevDisabledAt(avail, current) == IndexOf(avail, current) <= 1

\* The next control disabled one entry too late.
NextDisabledAtLate(avail, current) ==
  IndexOf(avail, current) = 0 \/ IndexOf(avail, current) >= Len(avail) + 1

\* nextBtn.disabled = idx < 0 || idx >= availableDates.length - 1
NextDisabledAt(avail, current) ==
  IndexOf(avail, current) = 0 \/ IndexOf(avail, current) >= Len(avail)

\* setDateControls()
SetDateControls ==
  /\ prevDisabled' = PrevDisabledAt(availableDates', dateValue')
  /\ nextDisabled' = NextDisabledAt(availableDates', dateValue')
  /\ leadTag' = LeadOf(dateValue', baseDate')

\* The value the previous button's handler gives the selector.
PrevValue(avail, current) ==
  LET idx == IndexOf(avail, current)
  IN  IF idx > 1 THEN avail[idx - 1] ELSE current

\* The value the next button's handler gives the selector.
NextValue(avail, current) ==
  LET idx == IndexOf(avail, current)
  IN  IF idx >= 1 /\ idx < Len(avail) THEN avail[idx + 1] ELSE current

\* The final status of refreshLayers, after meta.json was read.
FinalStatusDates(loaded, dateStr, m) ==
  LET meta == FetchJSON(m)
  IN  IF loaded = 0 THEN St("No layers found for date.", 0, <<>>, dateStr, "none")
      ELSE IF meta = "updated" THEN St("Loaded n layer(s) for date. Updated:", loaded, <<>>, dateStr, "updated")
      ELSE IF meta = "updatedNotes" THEN St("Loaded n layer(s) for date. Updated:", loaded, <<>>, dateStr, "notes")
      ELSE St("Loaded n layer(s) for date.", loaded, <<>>, dateStr, "none")

\* The loop of refreshLayers from checkbox position `from` on: it suspends
\* on the next checked layer's fetch, or leaves the loop, fits the view and
\* suspends on the fetch of meta.json.
DatesContinue(c, cyc, cs, from, map, table, loading, keep) ==
  LET j == NextChecked(checked', from)
  IN  /\ onMap' = map
      /\ layersOnMap' = table
      /\ last' = keep
      /\ status' = IF loading
                     THEN St("Loading date", 0, <<>>, cyc.dateStr,
                             IF cyc.lead > 0 THEN "lead" ELSE "day0")
                     ELSE status
      /\ IF j # 0
           THEN /\ cycles' = [cs EXCEPT ![c] = [cyc EXCEPT !.pc = "fetch", !.idx = j]]
                /\ view' = view
           ELSE /\ cycles' = [cs EXCEPT ![c] = [cyc EXCEPT !.pc = "meta", !.idx = 0]]
                /\ view' = Fitted(cyc.bounds, view)

\* refreshLayers() without its `if (!dateStr) return`.
DatesStartNoGuard ==
  /\ nStarted < MaxCycles
  /\ nStarted' = nStarted + 1
  /\ DatesContinue(nStarted + 1,
                   [Idle EXCEPT !.alone = InFlight(cycles) = {},
                                !.dateStr = dateValue',
                                !.lead = LeadOf(dateValue', baseDate').days],
                   Disturbed(cycles), 1,
                   ClearedMap(onMap, layersOnMap), ClearedTable(layersOnMap), TRUE,
                   KeptLast)

\* refreshLayers() from its first line to its first await.  It returns at
\* once when the selector has no value.
DatesStart ==
  IF dateValue' = NoDate
    THEN UNCHANGED <<onMap, layersOnMap, status, view, cycles, nStarted, last>>
    ELSE /\ nStarted < MaxCycles
         /\ nStarted' = nStarted + 1
         /\ DatesContinue(nStarted + 1,
                          [Idle EXCEPT !.alone = InFlight(cycles) = {},
                                       !.dateStr = dateValue',
                                       !.lead = LeadOf(dateValue', baseDate').days],
                          Disturbed(cycles), 1,
                          ClearedMap(onMap, layersOnMap), ClearedTable(layersOnMap), TRUE,
                          KeptLast)

\* `const layer = await loadGeoJSONLayer(key, url, lead)` settles.
DatesResume(c, o) ==
  /\ variant = "dates"
  /\ lastEvent' = "settled"
  /\ cycles[c].pc = "fetch"
  /\ checked' = checked
  /\ LET cyc == cycles[c]
         key == LayerOrder[cyc.idx]
         url == UrlDate(cyc.dateStr, key)
         res == LoadGeoJSONLayer(c, key, url, cyc.lead, o)
     IN  IF res.kind = "throw"
           THEN /\ cycles' = [cycles EXCEPT ![c] = Ended("threw")]
                /\ last' = NoLast
                /\ UNCHANGED <<onMap, layersOnMap, status, view>>
           ELSE IF res.kind = "null"
             THEN \* console.log(`No data at ${url}`)
                  DatesContinue(c,
                    [cyc EXCEPT !.missing = Append(@, [key |-> key, url |-> url]),
                                !.seen[key] = "fail"],
                    cycles, cyc.idx + 1, onMap, layersOnMap, FALSE, last)
             ELSE DatesContinue(c,
                    [cyc EXCEPT !.loaded = @ + 1,
                                !.seen[key] = "ok",
                                !.bounds = IF BoundsPushed(FetchJSON(o))
                                             THEN Append(@, res.layer) ELSE @],
                    cycles, cyc.idx + 1,
                    AddedMap(onMap, res.layer),
                    AddedTable(layersOnMap, key, res.layer), FALSE, last)
  /\ UNCHANGED <<variant, nStarted, probe, sideVars>>
  /\ UNCHANGED dateVars

\* `const meta = await fetchJSON(...meta.json)` settles: the final status is
\* written and refreshLayers returns.
DatesMeta(c, m) ==
  /\ variant = "dates"
  /\ lastEvent' = "settled"
  /\ cycles[c].pc = "meta"
  /\ cycles' = [cycles EXCEPT ![c] = Ended("done")]
  /\ status' = FinalStatusDates(cycles[c].loaded, cycles[c].dateStr, m)
  /\ last' = Result(c, cycles[c], onMap, layersOnMap, checked)
  /\ UNCHANGED <<variant, checked, onMap, layersOnMap, view, nStarted, probe, sideVars>>
  /\ UNCHANGED dateVars

\* What the request for data/index.json can end in: no document, or a
\* document {dates, latest?}.  An index document lists each date once, in
\* any order; `latest` may be absent, one of the dates, or another date.
DistinctSeqs(S) ==
  {q \in UNION {[1..n -> S] : n \in 0..Cardinality(S)} :
      \A i, j \in DOMAIN q : i # j => q[i] # q[j]}

IndexResponses ==
  [kind : {"reject", "http", "badjson", "falsy"}, dates : {<<>>}, latest : {NoDate}]
    \cup [kind : {"doc"}, dates : DistinctSeqs(Keys), latest : Keys \cup {NoDate}]

\* initDates() resumes from `await fetchJSON("data/index.json")` and runs
\* to the first await of refreshLayers (or returns: nothing usable).
InitDatesResume(r) ==
  /\ variant = "dates"
  /\ lastEvent' = "index"
  /\ initPc = "index"
  /\ checked' = checked
  /\ IF FetchJSON(r.kind) # "doc" \/ Len(r.dates) = 0
       THEN /\ initPc' = "unusable"
            /\ status' = St("Missing data/index.json or no dates listed.", 0, <<>>, NoDate, "none")
            /\ UNCHANGED <<availableDates, baseDate, options, dateValue,
                           prevDisabled, nextDisabled, leadTag>>
            /\ UNCHANGED <<onMap, layersOnMap, view, cycles, nStarted, last>>
       ELSE /\ initPc' = "ready"
            /\ availableDates' = SortedDates(r.dates)
            /\ baseDate' = BaseDateOf(r.latest, availableDates')
            /\ options' = availableDates'
            /\ dateValue' = SelectValue(options', baseDate')
            /\ SetDateControls
            /\ DatesStart
  /\ UNCHANGED <<variant, probe, sideVars>>

\* dateSelect "change": the user picked another option.
DatesSelect(d) ==
  /\ variant = "dates"
  /\ lastEvent' = "select"
  /\ d \in Range(options)
  /\ d # dateValue
  /\ dateValue' = d
  /\ UNCHANGED <<variant, checked, initPc, availableDates, baseDate, options, probe, sideVars>>
  /\ SetDateControls
  /\ DatesStart

\* prevBtn "click"; a disabled button dispatches no click.
DatesPrev ==
  /\ variant = "dates"
  /\ ~prevDisabled
  /\ lastEvent' = "prev"
  /\ dateValue' = SelectValue(options, PrevValue(availableDates, dateValue))
  /\ UNCHANGED <<variant, checked, initPc, availableDates, baseDate, options, probe, sideVars>>
  /\ SetDateControls
  /\ DatesStart

\* nextBtn "click"; a disabled button dispatches no click.
DatesNext ==
  /\ variant = "dates"
  /\ ~nextDisabled
  /\ lastEvent' = "next"
  /\ dateValue' = SelectValue(options, NextValue(availableDates, dateValue))
  /\ UNCHANGED <<variant, checked, initPc, availableDates, baseDate, options, probe, sideVars>>
  /\ SetDateControls
  /\ DatesStart

\* checkboxes.forEach((cb) => cb.addEventListener("change", refreshLayers))
DatesToggle(k) ==
  /\ variant = "dates"
  /\ lastEvent' = "toggle"
  /\ checked' = [checked EXCEPT ![k] = ~checked[k]]
  /\ UNCHANGED <<variant, probe, sideVars>>
  /\ UNCHANGED dateVars
  /\ DatesStart

\* The date page after its script has run: the selector has no options yet,
\* nothing is on the map, and initDates() is suspended on the request for
\* data/index.json.
InitDates ==
  /\ variant = "dates"
  /\ checked \in [Layers -> BOOLEAN]
  /\ onMap = {}
  /\ layersOnMap = [k \in Layers |-> NoLayer]
  /\ view = {}
  /\ status = St("", 0, <<>>, NoDate, "none")
  /\ nStarted = 0
  /\ cycles = [c \in 1..MaxCycles |-> Idle]
  /\ last = NoLast
  /\ initPc = "index"
  /\ availableDates = <<>>
  /\ baseDate = NoDate
  /\ options = <<>>
  /\ dateValue = NoDate
  /\ prevDisabled = FALSE
  /\ nextDisabled = FALSE
  /\ leadTag = [nan |-> FALSE, days |-> 0]
  /\ lastEvent = "load"
  /\ probe = NoProbe
  /\ SideInit

\* ------------------------------------------------------- specification
NextLatest ==
  \/ LatestBoot
  \/ \E k \in Layers : LatestToggle(k)
  \/ LatestReload
  \/ \E c \in 1..MaxCycles, o \in LoadOutcomes : LatestResume(c, o)

NextDates ==
  \/ \E r \in IndexResponses : InitDatesResume(r)
  \/ \E d \in Keys : DatesSelect(d)
  \/ DatesPrev
  \/ DatesNext
  \/ \E k \in Layers : DatesToggle(k)
  \/ \E c \in 1..MaxCycles, o \in LoadOutcomes : DatesResume(c, o)
  \/ \E c \in 1..MaxCycles, m \in MetaOutcomes : DatesMeta(c, m)

\* ---------------------------------------------------------------- styling
\* Numbers are counted in units of 1/100000, so that 0.79999 is a number of
\* the model; One is the 1 of clamp01.
One == 100000

\* The values a feature property can have.  A value is kept with what
\* Number(value) gives: NaN, or a number.
\*   undef   the property is missing          Number(undefined) is NaN
\*   null    the property is null             Number(null) is 0
\*   num     a number
\*   numstr  a string that reads as a number  Number("0.7") is 0.7
\*   str     any other non-empty string       Number("high") is NaN
\*   true    the boolean true                 Number(true) is 1
\*   obj     an object                        Number({}) is NaN
NaN == [nan |-> TRUE, n |-> 0]

Num(n) == [nan |-> FALSE, n |-> n]

Thresholds == {20000, 40000, 60000, 80000}

SampleNumbers ==
  {t + e : t \in Thresholds \cup {0, One}, e \in {0 - 1, 0, 1}}
    \cup {(i * One) \div GridSteps : i \in (0 - GridSteps)..(2 * GridSteps)}
    \cup {30000, 50000, 85000}

PropValues ==
  {[t |-> "undef", n |-> 0], [t |-> "null", n |-> 0], [t |-> "str", n |-> 0],
   [t |-> "obj", n |-> 0], [t |-> "true", n |-> One]}
    \cup [t : {"num", "numstr"}, n : SampleNumbers]

\* Number(x)
ToNumber(v) ==
  IF v.t \in {"undef", "str", "obj"} THEN NaN
  ELSE IF v.t = "null" THEN Num(0)
  ELSE Num(v.n)

\* v ?? d
OrElse(v, d) == IF v.t \in {"undef", "null"} THEN [t |-> "num", n |-> d] ELSE v

\* clamp01 without the lower bound.
Clamp01NoFloor(v) ==
  LET n == ToNumber(v)
  IN  IF n.nan THEN 0 ELSE IF n.n > One THEN One ELSE n.n

\* clamp01(x)
Clamp01(v) ==
  LET n == ToNumber(v)
  IN  IF n.nan THEN 0
      ELSE LET m == IF n.n < One THEN n.n ELSE One
           IN  IF m > 0 THEN m ELSE 0

\* presenceColor with > in place of >=.
PresenceColorStrict(v) ==
  LET p == Clamp01(v)
  IN  IF p > 80000 THEN "#08306b"
      ELSE IF p > 60000 THEN "#08519c"
      ELSE IF p > 40000 THEN "#2171b5"
      ELSE IF p > 20000 THEN "#6baed6"
      ELSE "#c6dbef"

\* presenceColor(p)
PresenceColor(v) ==
  LET p == Clamp01(v)
  IN  IF p >= 80000 THEN "#08306b"
      ELSE IF p >= 60000 THEN "#08519c"
      ELSE IF p >= 40000 THEN "#2171b5"
      ELSE IF p >= 20000 THEN "#6baed6"
      ELSE "#c6dbef"

\* riskColor(r)
RiskColor(v) ==
  LET r == Clamp01(v)
  IN  IF r >= 80000 THEN "#7f0000"
      ELSE IF r >= 60000 THEN "#b30000"
      ELSE IF r >= 40000 THEN "#d7301f"
      ELSE IF r >= 20000 THEN "#fc8d59"
      ELSE "#fee0d2"

\* detColor without its middle step.
DetColorTwoStep(v) ==
  LET c == Clamp01(v)
  IN  IF c >= 80000 THEN "#00d18f" ELSE "#ff6b6b"

\* detColor(c)
DetColor(v) ==
  LET c == Clamp01(v)
  IN  IF c >= 80000 THEN "#00d18f"
      ELSE IF c >= 60000 THEN "#f1c40f"
      ELSE "#ff6b6b"

\* LAYER_CONFIG[key].type of the date page and of the data/latest page.
StyleKeys == {"grazing", "water", "presence", "corridors", "hotspots"}

TypeOf(key) ==
  IF key = "corridors" THEN "line" ELSE IF key = "detections" THEN "point" ELSE "poly"

\* The lead time after which the fade would reach zero.
FadeDays == 46

\* Fade factors are counted in units of 1/(10 * FadeDays), in which the
\* floor 0.35 is the whole number 161; opacities in units of 1/100 of that.
FadeUnit == 10 * FadeDays

FadeFloor == (35 * FadeUnit) \div 100

\* leadFade without its floor.
LeadFadeNoFloor(leadDays) ==
  LET f == FadeUnit - 10 * leadDays
  IN  IF f < FadeUnit THEN (IF f < 0 THEN 0 ELSE f) ELSE FadeUnit

\* leadFade(leadDays) = Math.max(0.35, Math.min(1.0, 1 - leadDays / 46))
LeadFade(leadDays) ==
  LET f == FadeUnit - 10 * leadDays
      m == IF f < FadeUnit THEN f ELSE FadeUnit
  IN  IF m > FadeFloor THEN m ELSE FadeFloor

\* A style has no such property.
NoOpacity == 0 - 1

\* The style of a line, a hotspots area and any other area, with the
\* intensity it was computed from (`value`, history).
StyleOf(key, v, fade) ==
  IF TypeOf(key) = "line"
    THEN LET w == Clamp01(OrElse(v, 50000))
         IN  [value |-> w, weight |-> 2 * One + 6 * w, opacity |-> 90 * fade,
              fillColor |-> "none", fillOpacity |-> NoOpacity, radius |-> 0]
  ELSE IF key = "hotspots"
    THEN LET r == Clamp01(OrElse(v, 30000))
         IN  [value |-> r, weight |-> One, opacity |-> 25 * fade,
              fillColor |-> RiskColor([t |-> "num", n |-> r]), fillOpacity |-> 45 * fade,
              radius |-> 0]
  ELSE LET p == Clamp01(OrElse(v, 30000))
       IN  [value |-> p, weight |-> One, opacity |-> 18 * fade,
            fillColor |-> PresenceColor([t |-> "num", n |-> p]), fillOpacity |-> 35 * fade,
            radius |-> 0]

\* styleFor(key, feature) of src/app.js: no fade.
StyleFor(key, v) == StyleOf(key, v, FadeUnit)

\* geojsonStyleFor(key, feature, leadDays) of the date page.
GeojsonStyleFor(key, v, leadDays) ==
  StyleOf(key, v, LeadFade(IF leadDays > 0 THEN leadDays ELSE 0))

\* pointToLayer of loadLayer (src/app.js): the circle marker of a detection.
PointToLayer(v) ==
  LET c == Clamp01(OrElse(v, 50000))
  IN  [value |-> c, weight |-> One, opacity |-> 55 * FadeUnit,
       fillColor |-> DetColor([t |-> "num", n |-> c]), fillOpacity |-> 85 * FadeUnit,
       radius |-> 3 * One + 6 * c]

\* pointToLayer of loadDetections (detections page).
DetectPointToLayer(v) ==
  LET conf == Clamp01(OrElse(v, 60000))
  IN  [value |-> conf, weight |-> One, opacity |-> 80 * FadeUnit,
       fillColor |-> "#22c55e", fillOpacity |-> 85 * FadeUnit,
       radius |-> 3 * One + 6 * conf]

Leads == (0 - MaxLead)..MaxLead

\* One call of a styling function: the arguments are drawn from the
\* bounded sets when the behaviour starts, and one function is applied.
StyleProbe(fn, key, v, lead, out) ==
  [fn |-> fn, key |-> key, v |-> v, lead |-> lead, out |-> out]

NoStyle == [value |-> 0, weight |-> 0, opacity |-> NoOpacity, fillColor |-> "none",
            fillOpacity |-> NoOpacity, radius |-> 0]

styleIdle == <<variant, checked, onMap, layersOnMap, status, view, cycles, nStarted,
               last, dateVars, lastEvent, sideVars>>

\* styleFor(key, feature) with feature.properties[valueProp] = probe.v
CallStyleFor ==
  /\ variant = "style"
  /\ probe.fn = "none"
  /\ probe.key \in {"presence", "hotspots", "corridors"}
  /\ probe.lead = 0
  /\ probe' = [probe EXCEPT !.fn = "styleFor", !.out = StyleFor(probe.key, probe.v)]
  /\ UNCHANGED styleIdle

\* geojsonStyleFor(key, feature, leadDays)
CallGeojsonStyleFor ==
  /\ variant = "style"
  /\ probe.fn = "none"
  /\ probe.key \in StyleKeys
  /\ probe' = [probe EXCEPT !.fn = "geojsonStyleFor",
                            !.out = GeojsonStyleFor(probe.key, probe.v, probe.lead)]
  /\ UNCHANGED styleIdle

\* pointToLayer(feature, latlng) of loadLayer, feature.properties.conf = probe.v
CallPointToLayer ==
  /\ variant = "style"
  /\ probe.fn = "none"
  /\ probe.key = "detections"
  /\ probe.lead = 0
  /\ probe' = [probe EXCEPT !.fn = "pointToLayer", !.out = PointToLayer(probe.v)]
  /\ UNCHANGED styleIdle

\* pointToLayer(feature, latlng) of loadDetections
CallDetectPointToLayer ==
  /\ variant = "style"
  /\ probe.fn = "none"
  /\ probe.key = "detections"
  /\ probe.lead = 0
  /\ probe' = [probe EXCEPT !.fn = "detectPointToLayer", !.out = DetectPointToLayer(probe.v)]
  /\ UNCHANGED styleIdle

InitStyle ==
  /\ variant = "style"
  /\ checked = [k \in Layers |-> FALSE]
  /\ onMap = {}
  /\ layersOnMap = [k \in Layers |-> NoLayer]
  /\ view = {}
  /\ status = St("", 0, <<>>, NoDate, "none")
  /\ nStarted = 0
  /\ cycles = [c \in 1..MaxCycles |-> Idle]
  /\ last = NoLast
  /\ initPc = "none"
  /\ availableDates = <<>>
  /\ baseDate = NoDate
  /\ options = <<>>
  /\ dateValue = NoDate
  /\ prevDisabled = FALSE
  /\ nextDisabled = FALSE
  /\ leadTag = [nan |-> FALSE, days |-> 0]
  /\ lastEvent = "load"
  /\ \E k \in StyleKeys \cup {"detections"}, v \in PropValues, d \in Leads :
        probe = StyleProbe("none", k, v, d, NoStyle)
  /\ SideInit

NextStyle ==
  \/ CallStyleFor
  \/ CallGeojsonStyleFor
  \/ CallPointToLayer
  \/ CallDetectPointToLayer

\* The styling functions.
SpecStyle == InitStyle /\ [][NextStyle]_vars

\* ------------------------------------------------------ detections page
\* What the request for data/latest/detections.geojson can end in: the
\* outcomes of any document, and a collection whose `features` array holds
\* an element that is not GeoJSON (L.geoJSON throws on it).
DetOutcomes == Outcomes \cup {"badfeature"}

\* Array.isArray(geo.features)
HasFeaturesArray(doc) == doc \in {"fc", "fcEmpty", "fcBad", "badfeature"}

\* geo.features.length, as far as the page tells lengths apart.
FeatureCount(doc) == IF doc \in {"fc", "fcBad", "badfeature"} THEN 1 ELSE 0

\* The status loadDetections ends with when the request ended in o and
\* L.geoJSON did not throw.
DetectFinalStatus(o) ==
  LET geo == FetchJSON(o)
  IN  IF Falsy(geo) \/ ~HasFeaturesArray(geo)
        THEN St("No detections.geojson found (or invalid).", 0, <<>>, NoDate, "none")
        ELSE St("Detections loaded: n feature(s).", FeatureCount(geo), <<>>, NoDate, "none")

\* clearDetections()
ClearedDetections(map, layer) == IF layer # NoLayer THEN map \ {layer} ELSE map

\* loadDetections() from its first line to its await (or to its return when
\* the toggle is off).
DetectStart ==
  /\ onMap' = ClearedDetections(onMap, detectionsLayer)
  /\ detectionsLayer' = NoLayer
  /\ IF ~detectionsToggle'
       THEN /\ status' = St("Detections off.", 0, <<>>, NoDate, "none")
            /\ UNCHANGED <<cycles, nStarted>>
       ELSE /\ nStarted < MaxCycles
            /\ nStarted' = nStarted + 1
            /\ status' = St("Loading detections", 0, <<>>, NoDate, "none")
            /\ cycles' = [cycles EXCEPT ![nStarted + 1] = [Idle EXCEPT !.pc = "fetch"]]
  /\ UNCHANGED <<variant, checked, layersOnMap, view, last, dateVars, probe,
                 ndviChart, ndviStats, ndviPending>>

\* detectionsToggle "change"
DetectToggle ==
  /\ variant = "detections"
  /\ initPc = "ready"
  /\ lastEvent' = "toggle"
  /\ detectionsToggle' = ~detectionsToggle
  /\ DetectStart

\* reloadBtn "click"
DetectReload ==
  /\ variant = "detections"
  /\ initPc = "ready"
  /\ lastEvent' = "reload"
  /\ detectionsToggle' = detectionsToggle
  /\ DetectStart

\* loadDetections() resumes from `await fetchJSON(...)` and runs to its end.
DetectResume(c, o) ==
  /\ variant = "detections"
  /\ lastEvent' = "settled"
  /\ cycles[c].pc = "fetch"
  /\ LET geo == FetchJSON(o)
         layer == Boxed(Overlay(c, "detections", NoDate, 0), geo)
     IN  IF Falsy(geo) \/ ~HasFeaturesArray(geo)
           THEN /\ status' = DetectFinalStatus(o)
                /\ cycles' = [cycles EXCEPT ![c] = Ended("done")]
                /\ last' = [c |-> c, o |-> o]
                /\ UNCHANGED <<onMap, detectionsLayer, view>>
           ELSE IF geo = "badfeature"
             THEN /\ cycles' = [cycles EXCEPT ![c] = Ended("threw")]
                  /\ UNCHANGED <<onMap, detectionsLayer, view, status, last>>
             ELSE /\ detectionsLayer' = layer
                  /\ onMap' = AddedMap(onMap, layer)
                  /\ view' = IF BoundsPushed(geo) THEN {layer} ELSE view
                  /\ status' = DetectFinalStatus(o)
                  /\ cycles' = [cycles EXCEPT ![c] = Ended("done")]
                  /\ last' = [c |-> c, o |-> o]
  /\ UNCHANGED <<variant, checked, layersOnMap, nStarted, dateVars, probe,
                 detectionsToggle, ndviChart, ndviStats, ndviPending>>

\* The detections page when its script starts; the toggle is as the markup
\* has it.
InitDetect ==
  /\ variant = "detections"
  /\ checked = [k \in Layers |-> FALSE]
  /\ onMap = {}
  /\ layersOnMap = [k \in Layers |-> NoLayer]
  /\ view = {}
  /\ status = St("", 0, <<>>, NoDate, "none")
  /\ nStarted = 0
  /\ cycles = [c \in 1..MaxCycles |-> Idle]
  /\ last = [c |-> 0, o |-> "none"]
  /\ initPc = "boot"
  /\ availableDates = <<>>
  /\ baseDate = NoDate
  /\ options = <<>>
  /\ dateValue = NoDate
  /\ prevDisabled = FALSE
  /\ nextDisabled = FALSE
  /\ leadTag = [nan |-> FALSE, days |-> 0]
  /\ lastEvent = "load"
  /\ probe = NoProbe
  /\ detectionsToggle \in BOOLEAN
  /\ detectionsLayer = NoLayer
  /\ ndviChart = NoChart
  /\ ndviStats = "none"
  /\ ndviPending = 0

\* setStatus("Ready."); loadDetections();
DetectBoot ==
  /\ variant = "detections"
  /\ initPc = "boot"
  /\ lastEvent' = "boot"
  /\ detectionsToggle' = detectionsToggle
  /\ onMap' = ClearedDetections(onMap, detectionsLayer)
  /\ detectionsLayer' = NoLayer
  /\ IF ~detectionsToggle
       THEN /\ status' = St("Detections off.", 0, <<>>, NoDate, "none")
            /\ UNCHANGED <<cycles, nStarted>>
       ELSE /\ nStarted' = nStarted + 1
            /\ status' = St("Loading detections", 0, <<>>, NoDate, "none")
            /\ cycles' = [cycles EXCEPT ![nStarted + 1] = [Idle EXCEPT !.pc = "fetch"]]
  /\ initPc' = "ready"
  /\ UNCHANGED <<variant, checked, layersOnMap, view, last, availableDates, baseDate,
                 options, dateValue, prevDisabled, nextDisabled, leadTag, probe,
                 ndviChart, ndviStats, ndviPending>>

NextDetect ==
  \/ DetectBoot
  \/ DetectToggle
  \/ DetectReload
  \/ \E c \in 1..MaxCycles, o \in DetOutcomes : DetectResume(c, o)

\* The detections page.
SpecDetect == InitDetect /\ [][NextDetect]_vars

\* ------------------------------------------------------ histogram panel
\* What the request for data/latest/ndvi_hist.json can end in: no document,
\* or a parsed document, of which the shapes of `bins` and `counts` and the
\* presence of date / mean / p10 / p90 are kept.
ArrayShapes == {Absent, NotArray} \cup (0..MaxBins)

HistResponses ==
  [kind : {"reject", "http", "badjson", "falsy"}, bins : {Absent}, counts : {Absent},
   stats : {FALSE}]
    \cup [kind : {"doc"}, bins : ArrayShapes, counts : ArrayShapes, stats : BOOLEAN]

\* Array.isArray(x)
IsArray(shape) == shape >= 0

\* The test of renderNdviChart without the "+ 1".
HistFormatOkSameLength(bins, counts) ==
  IsArray(bins) /\ IsArray(counts) /\ bins = counts

\* !( !Array.isArray(bins) || !Array.isArray(counts) ||
\*    bins.length !== counts.length + 1 )
HistFormatOk(bins, counts) ==
  IsArray(bins) /\ IsArray(counts) /\ bins = counts + 1

\* renderNdviChart(hist): the statistics text and the chart it leaves.
RenderNdviChart(hist, chart) ==
  IF ~HistFormatOk(hist.bins, hist.counts)
    THEN [stats |-> "ndvi_hist.json exists but format is wrong", chart |-> chart]
    ELSE [stats |-> IF hist.stats THEN "Date / Mean / P10 / P90" ELSE "Histogram loaded.",
          chart |-> [bins |-> hist.bins, counts |-> hist.counts, stats |-> hist.stats]]

\* loadNdviHistogram() up to `await fetchJSON(url)`.
NdviStart ==
  /\ ndviPending < MaxCycles
  /\ ndviPending' = ndviPending + 1
  /\ UNCHANGED <<variant, checked, onMap, layersOnMap, status, view, cycles, nStarted,
                 last, availableDates, baseDate, options, dateValue, prevDisabled,
                 nextDisabled, leadTag, probe, detectionsToggle, detectionsLayer,
                 ndviChart, ndviStats>>

\* reloadNdviBtn "click"
NdviReload ==
  /\ variant = "ndvi"
  /\ initPc = "ready"
  /\ initPc' = initPc
  /\ lastEvent' = "reload"
  /\ NdviStart

\* loadNdviHistogram() resumes from its await with the response r.
NdviResume(r) ==
  /\ variant = "ndvi"
  /\ ndviPending > 0
  /\ ndviPending' = ndviPending - 1
  /\ lastEvent' = "settled"
  /\ last' = [doc |-> r, before |-> ndviChart]
  /\ IF FetchJSON(r.kind) # "doc"
       THEN /\ ndviStats' = "No NDVI histogram found"
            /\ ndviChart' = NoChart
       ELSE /\ ndviStats' = RenderNdviChart(r, ndviChart).stats
            /\ ndviChart' = RenderNdviChart(r, ndviChart).chart
  /\ UNCHANGED <<variant, checked, onMap, layersOnMap, status, view, cycles, nStarted,
                 dateVars, probe, detectionsToggle, detectionsLayer>>

\* The histogram panel of the data/latest page when its script starts.
InitNdvi ==
  /\ variant = "ndvi"
  /\ checked = [k \in Layers |-> FALSE]
  /\ onMap = {}
  /\ layersOnMap = [k \in Layers |-> NoLayer]
  /\ view = {}
  /\ status = St("", 0, <<>>, NoDate, "none")
  /\ nStarted = 0
  /\ cycles = [c \in 1..MaxCycles |-> Idle]
  /\ last = [doc |-> [kind |-> "none", bins |-> Absent, counts |-> Absent, stats |-> FALSE],
             before |-> NoChart]
  /\ initPc = "boot"
  /\ availableDates = <<>>
  /\ baseDate = NoDate
  /\ options = <<>>
  /\ dateValue = NoDate
  /\ prevDisabled = FALSE
  /\ nextDisabled = FALSE
  /\ leadTag = [nan |-> FALSE, days |-> 0]
  /\ lastEvent = "load"
  /\ probe = NoProbe
  /\ SideInit

\* loadNdviHistogram() of the start-up.
NdviBoot ==
  /\ variant = "ndvi"
  /\ initPc = "boot"
  /\ initPc' = "ready"
  /\ lastEvent' = "boot"
  /\ NdviStart

NextNdvi ==
  \/ NdviBoot
  \/ NdviReload
  \/ \E r \in HistResponses : NdviResume(r)

\* The histogram panel.
SpecNdvi == InitNdvi /\ [][NextNdvi]_vars

\* The layer fetcher of either page, called once with arguments and a
\* request outcome drawn from the bounded sets.
InitFetch ==
  /\ variant = "fetcher"
  /\ checked = [k \in Layers |-> FALSE]
  /\ onMap = {}
  /\ layersOnMap = [k \in Layers |-> NoLayer]
  /\ view = {}
  /\ status = St("", 0, <<>>, NoDate, "none")
  /\ nStarted = 0
  /\ cycles = [c \in 1..MaxCycles |-> Idle]
  /\ last = NoLast
  /\ initPc = "none"
  /\ availableDates = <<>>
  /\ baseDate = NoDate
  /\ options = <<>>
  /\ dateValue = NoDate
  /\ prevDisabled = FALSE
  /\ nextDisabled = FALSE
  /\ leadTag = [nan |-> FALSE, days |-> 0]
  /\ lastEvent = "load"
  /\ probe = NoProbe
  /\ SideInit

fetchVars == <<variant, checked, onMap, layersOnMap, status, view, cycles,
               nStarted, last, initPc, availableDates, baseDate,
               options, dateValue, prevDisabled, nextDisabled, leadTag, lastEvent,
               sideVars>>

\* loadLayer(key) called by activation c; its request ends in o.
CallLoadLayer(c, key, o) ==
  /\ variant = "fetcher"
  /\ probe' = [fn |-> "loadLayer", key |-> key, url |-> UrlLatest(key), o |-> o,
               out |-> LoadLayer(c, key, o)]
  /\ UNCHANGED fetchVars

\* loadGeoJSONLayer(key, url, leadDays) called by activation c for the date
\* d, with base date b; its request ends in o.
CallLoadGeoJSONLayer(c, key, d, b, o) ==
  /\ variant = "fetcher"
  /\ probe' = [fn |-> "loadGeoJSONLayer", key |-> key, url |-> UrlDate(d, key), o |-> o,
               out |-> LoadGeoJSONLayer(c, key, UrlDate(d, key), LeadOf(d, b).days, o)]
  /\ UNCHANGED fetchVars

NextFetch ==
  \/ \E c \in 1..MaxCycles, k \in Layers, o \in Outcomes : CallLoadLayer(c, k, o)
  \/ \E c \in 1..MaxCycles, k \in Layers, d \in Keys, b \in Keys, o \in Outcomes :
        CallLoadGeoJSONLayer(c, k, d, b, o)

SpecFetch == InitFetch /\ [][NextFetch]_vars

\* The data/latest page.
SpecLatest == InitLatest /\ [][NextLatest]_vars

\* The data/latest page with requests that may hang.  A request that does
\* not hang settles, and the start-up call is made.
NextLatestHang ==
  \/ NextLatest
  \/ \E c \in 1..MaxCycles : LatestHang(c)

SpecLatestHang ==
  /\ InitLatest
  /\ [][NextLatestHang]_vars
  /\ WF_vars(LatestBoot)
  /\ WF_vars(\E c \in 1..MaxCycles, o \in LoadOutcomes : LatestResume(c, o))

\* The data/latest page with collections of every kind of bounds: with a
\* valid box, without features, and with getBounds() throwing.
FitOutcomes == {"reject", "fc", "fcEmpty", "fcBad"}

NextLatestFit ==
  \/ LatestBoot
  \/ \E k \in Layers : LatestToggle(k)
  \/ LatestReload
  \/ \E c \in 1..MaxCycles, o \in FitOutcomes : LatestResume(c, o)

SpecLatestFit == InitLatest /\ [][NextLatestFit]_vars

\* The date page.
SpecDates == InitDates /\ [][NextDates]_vars

\* Either page.
Init == InitLatest \/ InitDates

Next == NextLatest \/ NextDates

Spec == Init /\ [][Next]_vars

\* ================================================================ claims
Started == 1..nStarted

AllReturned == nStarted >= 1 /\ \A c \in Started : cycles[c].pc = "done"

\* C1: in every reachable state, whatever refresh cycles were triggered and
\* however they interleave, the map holds at most one overlay per layer
\* identifier.
C1_OneOverlayPerLayer ==
  \A k \in Layers : Cardinality({ov \in onMap : ov.key = k}) <= 1

\* C2 (clearing invariant): when a refresh cycle has completed, the tracked
\* table holds an entry for exactly the layer identifiers whose checkbox is
\* enabled and whose fetch in that cycle succeeded.
C2_ClearingInvariant ==
  last.c # 0 =>
    last.tracked = {k \in Layers : last.chk[k] /\ last.seen[k] = "ok"}

\* C3 (last finisher wins): once the refresh cycles that were in flight
\* together have all completed, every overlay on the map and every entry of
\* the tracked table was built by the cycle that finished last.
C3_LastFinisherWins ==
  (AllReturned /\ nStarted >= 2 /\ ~last.alone) =>
    /\ \A ov \in onMap : ov.cyc = last.c
    /\ \A k \in TrackedKeys(layersOnMap) : layersOnMap[k].cyc = last.c

\* C4: the refresh cycle always runs to completion: whatever the fetch of an
\* enabled layer ends in, no exception leaves the refresh routine (so the
\* remaining layers are processed and the final status is written).
C4_NoExceptionLeavesRefresh ==
  \A c \in 1..MaxCycles : cycles[c].pc # "threw"

\* C5: the layer fetcher never raises; a rejected fetch, a non-success HTTP
\* status and a body that is not JSON each yield the failure variant, which
\* carries the location that was attempted; a fetch that delivered a
\* document yields the success variant carrying the data.
FetchFailed(o) == o \in {"reject", "http", "badjson"}

FetchedCollection(o) == o \in {"fc", "fcEmpty", "fcBad"}

\* C5: a call of the layer fetcher does not raise, a failed fetch yields
\* the failure variant with the attempted location, a collection a layer.
C5_FetcherContract ==
  probe.fn # "none" =>
    /\ probe.out.kind # "throw"
    /\ FetchFailed(probe.o) =>
         /\ probe.out.kind = "res" /\ ~probe.out.ok /\ probe.out.url = probe.url
    /\ FetchedCollection(probe.o) =>
         /\ probe.out.layer # NoLayer
         /\ probe.out.layer.key = probe.key

\* C6 (status reporting): the final status of a refresh in which L enabled
\* layers were fetched and M failed reports the count L (no data when L = 0)
\* and holds one missing entry per failed layer, naming the layer and the
\* path that was attempted.
LoadingShown == status.text \in {"Loading data/latest", "Loading date"}

\* The status on display is the final status of the activation `last.c`.
FinalShown == last.c # 0 /\ ~LoadingShown

SucceededKeys == {k \in Layers : last.seen[k] = "ok"}

FailedKeys == {k \in Layers : last.seen[k] = "fail"}

AttemptedUrl(k) == IF variant = "latest" THEN UrlLatest(k) ELSE UrlDate(last.date, k)

NoDataShown ==
  status.text \in {"No GeoJSON layers loaded. Missing:",
                   "No GeoJSON layers loaded (none selected).",
                   "No layers found for date."}

CountReported ==
  IF SucceededKeys = {} THEN NoDataShown
  ELSE ~NoDataShown /\ status.loaded = Cardinality(SucceededKeys)

\* `entries` names every failed layer once, with the path attempted.
NamesFailed(entries) ==
  /\ Len(entries) = Cardinality(FailedKeys)
  /\ \A k \in FailedKeys :
       \E i \in 1..Len(entries) : entries[i] = [key |-> k, url |-> AttemptedUrl(k)]

C7_RefreshIdempotent ==
  last.rep => (last.tracked = last.ptracked /\ last.profile = last.pprofile)

C7_Witness == last.rep /\ last.tracked # {} /\ last.c = 2

\* C8: once the list of available keys is not empty, the active key (the
\* selector's value) is one of them.
C8_ActiveKeyAvailable ==
  Len(availableDates) > 0 => dateValue \in Range(availableDates)

\* C9 (date navigation): previous / next moves the active key to the
\* adjacent available key in ascending order; while the active key is the
\* first (last) available key the previous (next) control is disabled, so
\* the key stays; and after every navigation step each control is disabled
\* exactly when the active key is at its boundary.
KeyBefore(avail, current) ==
  LET S == {k \in Range(avail) : k < current}
  IN  IF S = {} THEN current ELSE CHOOSE k \in S : \A m \in S : m <= k

KeyAfter(avail, current) ==
  LET S == {k \in Range(avail) : k > current}
  IN  IF S = {} THEN current ELSE CHOOSE k \in S : \A m \in S : k <= m

AtFirstKey == dateValue \in Range(availableDates) /\ KeyBefore(availableDates, dateValue) = dateValue

AtLastKey == dateValue \in Range(availableDates) /\ KeyAfter(availableDates, dateValue) = dateValue

C9_Step ==
  /\ lastEvent' = "prev" => dateValue' = KeyBefore(availableDates, dateValue)
  /\ lastEvent' = "next" => dateValue' = KeyAfter(availableDates, dateValue)
  /\ lastEvent' \in {"prev", "next"} /\ availableDates # <<>> =>
        /\ prevDisabled' <=> AtFirstKey'
        /\ nextDisabled' <=> AtLastKey'
  /\ AtFirstKey => prevDisabled
  /\ AtLastKey => nextDisabled

\* C9: every step of the date page satisfies C9_Step.
C9_DateNavigation == [][C9_Step]_vars

\* dates [2026-01-01, 2026-01-08], active 2026-01-01: one "next" made
\* 2026-01-08 the active key and disabled the next control.
C9_Witness ==
  /\ availableDates = <<1, 8>>
  /\ lastEvent = "next"
  /\ nStarted = 2
  /\ cycles[1].pc = "fetch" /\ cycles[1].dateStr = 1
  /\ cycles[2].pc = "fetch" /\ cycles[2].dateStr = 8
  /\ dateValue = 8
  /\ nextDisabled /\ ~prevDisabled

\* C10: when the index document is missing, unparsable or lists no dates,
\* the page shows the "no data" status, the list of available keys stays
\* empty, and no refresh cycle ever fetches a layer or adds an overlay,
\* whatever previous / next / checkbox events follow.
C10_UnusableIndex ==
  initPc = "unusable" =>
    /\ status.text = "Missing data/index.json or no dates listed."
    /\ availableDates = <<>>
    /\ dateValue = NoDate
    /\ nStarted = 0
    /\ \A c \in 1..MaxCycles : cycles[c].pc = "idle"
    /\ onMap = {}
    /\ TrackedKeys(layersOnMap) = {}

C10_Witness ==
  /\ initPc = "unusable"
  /\ lastEvent \in {"prev", "next", "toggle"}
  /\ prevDisabled /\ nextDisabled

\* C11: a document that was fetched and parsed but lacks the expected
\* shape (a collection without a `features` array, a histogram whose bins
\* and counts do not fit) is reported with a status that differs from the
\* status reported when the document is not found.
WrongShapeHistogram(doc) ==
  /\ doc.kind = "doc"
  /\ ~(doc.bins >= 0 /\ doc.counts >= 0 /\ doc.bins = doc.counts + 1)

\* C11: the status after a wrong-shape document is not a not-found status.
C11_FormatErrorDistinct ==
  /\ (variant = "detections" /\ lastEvent = "settled" /\ last.o = "badshape") =>
        \A f \in {"reject", "http", "badjson"} : status # DetectFinalStatus(f)
  /\ (variant = "ndvi" /\ lastEvent = "settled" /\ WrongShapeHistogram(last.doc)) =>
        ndviStats # "No NDVI histogram found"

\* C12 (histogram validation): a histogram document whose bins or counts
\* is not an array, or whose bins are not one more than its counts, is
\* rejected: the format-error text is set and the chart is left as it was;
\* the chart on display was always built from a document with
\* bins.length = counts.length + 1.
C12_HistogramValidation ==
  /\ (lastEvent = "settled" /\ WrongShapeHistogram(last.doc)) =>
        /\ ndviStats = "ndvi_hist.json exists but format is wrong"
        /\ ndviChart = last.before
  /\ ndviChart # NoChart =>
        /\ ndviChart.bins >= 1
        /\ ndviChart.counts >= 0
        /\ ndviChart.bins = ndviChart.counts + 1
  /\ (lastEvent = "settled" /\ last.doc.kind = "doc" /\ ~WrongShapeHistogram(last.doc)) =>
        /\ ndviChart.bins = last.doc.bins
        /\ ndviChart.counts = last.doc.counts
        /\ ndviStats \notin {"ndvi_hist.json exists but format is wrong",
                             "No NDVI histogram found"}

\* A chart is on display and a document with as many bins as counts was
\* rejected after it.
C12_Witness ==
  /\ lastEvent = "settled"
  /\ last.doc.kind = "doc"
  /\ last.doc.bins = 2 /\ last.doc.counts = 2
  /\ last.before # NoChart
  /\ ndviChart = last.before
  /\ ndviStats = "ndvi_hist.json exists but format is wrong"

\* C13 (intensity default-and-clamp): the value a style is computed from is
\* the intensity property clamped to [0,1] when it is a number, and the
\* fixed default otherwise (missing, null, not a number): 0.3 for area
\* layers and detection points, 0.5 for lines.
Called == probe.fn # "none"

ClampedTo01(n) == IF n < 0 THEN 0 ELSE IF n > One THEN One ELSE n

IsLineCall == probe.fn \in {"styleFor", "geojsonStyleFor"} /\ probe.key = "corridors"

IsPointCall == probe.fn \in {"pointToLayer", "detectPointToLayer"}

\* C13: numbers are clamped, everything else gets 0.3 (0.5 for lines).
C13_IntensityDefaultClamp ==
  Called =>
    IF probe.v.t = "num"
      THEN probe.out.value = ClampedTo01(probe.v.n)
      ELSE probe.out.value = (IF IsLineCall THEN 50000 ELSE 30000)

\* C13 as amended: the default is used only for a missing or null property,
\* and is 0.3 for areas, 0.5 for lines, 0.5 for the detection markers of
\* loadLayer and 0.6 for those of loadDetections; any other value is
\* converted with Number() and clamped to [0,1], and counts as 0 when the
\* conversion gives NaN.
C13_IntensityCoerceClamp ==
  Called =>
    IF probe.v.t \in {"undef", "null"}
      THEN probe.out.value =
             (IF IsLineCall THEN 50000
              ELSE IF probe.fn = "pointToLayer" THEN 50000
              ELSE IF probe.fn = "detectPointToLayer" THEN 60000
              ELSE 30000)
    ELSE IF probe.v.t \in {"str", "obj"}
      THEN probe.out.value = 0
    ELSE probe.out.value = ClampedTo01(probe.v.n)

\* A hotspots feature whose risk is a word is styled with intensity 0.
C13_Witness ==
  /\ probe.fn = "styleFor"
  /\ probe.key = "hotspots"
  /\ probe.v.t = "str"
  /\ probe.out.value = 0
  /\ probe.out.fillColor = "#fee0d2"

\* C14 (color ramp stepping): the fill color of an area layer is the color
\* of its ramp (risk for hotspots, presence for any other area layer) at the
\* bucket counted by the thresholds 0.2, 0.4, 0.6, 0.8 that the clamped
\* value reaches (>=, so a value on a threshold is in the higher bucket),
\* and the bucket never decreases when the value grows.
RiskRamp == <<"#fee0d2", "#fc8d59", "#d7301f", "#b30000", "#7f0000">>

PresenceRamp == <<"#c6dbef", "#6baed6", "#2171b5", "#08519c", "#08306b">>

Bucket(x) == 1 + Cardinality({t \in {20000, 40000, 60000, 80000} : x >= t})

RampIndex(ramp, color) == CHOOSE i \in 1..Len(ramp) : ramp[i] = color

IsAreaCall == probe.fn \in {"styleFor", "geojsonStyleFor"} /\ probe.key # "corridors"

AsNumber(n) == [t |-> "num", n |-> n]

\* C14: the fill color is the ramp's color at the bucket of the value.
C14_ColorRamp ==
  /\ IsAreaCall =>
       probe.out.fillColor =
         (IF probe.key = "hotspots" THEN RiskRamp ELSE PresenceRamp)[Bucket(probe.out.value)]
  /\ (IsAreaCall /\ probe.v.t = "num") =>
       \A n \in SampleNumbers :
          n <= probe.v.n =>
            /\ RampIndex(RiskRamp, RiskColor(AsNumber(n)))
                 <= RampIndex(RiskRamp, RiskColor(probe.v))
            /\ RampIndex(PresenceRamp, PresenceColor(AsNumber(n)))
                 <= RampIndex(PresenceRamp, PresenceColor(probe.v))
  /\ (IsAreaCall /\ probe.v = AsNumber(80000)) =>
       /\ RiskColor(probe.v) = RiskColor(AsNumber(85000))
       /\ RiskColor(probe.v) # RiskColor(AsNumber(79999))
       /\ PresenceColor(probe.v) = PresenceColor(AsNumber(85000))
       /\ PresenceColor(probe.v) # PresenceColor(AsNumber(79999))

\* A presence area with p = 0.8 exactly, at a lead of 7 days.
C14_Witness ==
  /\ probe.fn = "geojsonStyleFor"
  /\ probe.key = "presence"
  /\ probe.lead = 7
  /\ probe.v = AsNumber(80000)
  /\ probe.out.fillColor = "#08306b"

\* C15 (detection styling): in every variant that renders detections a
\* marker has radius 3 + 6 * confidence, the confidence clamped to [0,1],
\* and a fill color by the three-step ramp: >= 0.8 green, >= 0.6 yellow,
\* otherwise red.
ColorName(hex) ==
  IF hex \in {"#00d18f", "#22c55e"} THEN "green"
  ELSE IF hex = "#f1c40f" THEN "yellow"
  ELSE IF hex = "#ff6b6b" THEN "red"
  ELSE "other"

ConfidenceStep(c) == IF c >= 80000 THEN "green" ELSE IF c >= 60000 THEN "yellow" ELSE "red"

RadiusFor(c) == 3 * One + 6 * c

\* C15: every detection marker has the radius and the ramp color.
C15_DetectionStyle ==
  IsPointCall =>
    /\ probe.out.value \in 0..One
    /\ probe.out.radius = RadiusFor(probe.out.value)
    /\ ColorName(probe.out.fillColor) = ConfidenceStep(probe.out.value)

\* C15 as amended: the radius is 3 + 6 * confidence on both pages; the
\* ramp colors the markers of loadLayer, and the markers of the detections
\* page are all filled with #22c55e.
C15_DetectionStyleByPage ==
  IsPointCall =>
    /\ probe.out.value \in 0..One
    /\ probe.v.t = "num" => probe.out.value = ClampedTo01(probe.v.n)
    /\ probe.out.radius = RadiusFor(probe.out.value)
    /\ probe.fn = "pointToLayer" =>
         ColorName(probe.out.fillColor) = ConfidenceStep(probe.out.value)
    /\ probe.fn = "detectPointToLayer" => probe.out.fillColor = "#22c55e"

\* A detection with conf 0.6 drawn by loadLayer: radius 6.6, yellow.
C15_Witness ==
  /\ probe.fn = "pointToLayer"
  /\ probe.v = AsNumber(60000)
  /\ probe.out.radius = 660000
  /\ probe.out.fillColor = "#f1c40f"

\* C16 (lead-time fade): the fade factor of a lead time d is 1 - d/46
\* clamped to [0.35, 1]: 1 at d = 0 and for every d <= 0, 0.35 at d = 46 and
\* at d = 92; every stroke and fill opacity of a style is its base value
\* (0.9 line, 0.25 / 0.45 risk, 0.18 / 0.35 presence) times that factor, so
\* no opacity is below 35% of its base and none changes for d <= 0.
\* Factors are in 460ths (0.35 is 161), opacities in 46000ths.
ExpectedFade(d) ==
  IF d <= 0 THEN 460
  ELSE IF 460 - 10 * d < 161 THEN 161
  ELSE 460 - 10 * d

BaseOpacity(key) ==
  IF key = "corridors" THEN [stroke |-> 90, fill |-> 0]
  ELSE IF key = "hotspots" THEN [stroke |-> 25, fill |-> 45]
  ELSE [stroke |-> 18, fill |-> 35]

\* C16: the fade factor and the opacities of geojsonStyleFor.
C16_LeadFade ==
  probe.fn = "geojsonStyleFor" =>
    LET f == ExpectedFade(probe.lead)
        base == BaseOpacity(probe.key)
    IN  /\ LeadFade(probe.lead) = f
        /\ probe.out.opacity = base.stroke * f
        /\ probe.out.opacity * 100 >= 35 * base.stroke * 460
        /\ probe.lead <= 0 => probe.out.opacity = base.stroke * 460
        /\ IF probe.key = "corridors"
             THEN probe.out.fillOpacity = NoOpacity
             ELSE /\ probe.out.fillOpacity = base.fill * f
                  /\ probe.out.fillOpacity * 100 >= 35 * base.fill * 460
                  /\ probe.lead <= 0 => probe.out.fillOpacity = base.fill * 460
        /\ probe.lead \in {46, 92} => LeadFade(probe.lead) = 161
        /\ probe.lead = 0 => LeadFade(probe.lead) = 460

\* A hotspots area 92 days ahead: both opacities at 35% of their base.
C16_Witness ==
  /\ probe.fn = "geojsonStyleFor"
  /\ probe.key = "hotspots"
  /\ probe.lead = 92
  /\ probe.out.opacity = 25 * 161
  /\ probe.out.fillOpacity = 45 * 161

\* C17: a fetch that never resolves for one enabled layer does not block
\* the other layers: within the same refresh cycle every enabled layer
\* after it in iteration order is still eventually fetched and added to the
\* map.
PositionOf(k) == CHOOSE i \in 1..Len(LayerOrder) : LayerOrder[i] = k

HungAt(c, k) == cycles[c].pc = "hung" /\ cycles[c].seen[k] = "hung"

\* C17: the layers after a hung one are eventually added by the same cycle.
C17_HungFetchDoesNotBlock ==
  \A c \in 1..MaxCycles : \A k \in Layers : \A m \in Layers :
     (HungAt(c, k) /\ PositionOf(m) > PositionOf(k) /\ checked[m])
        ~> (\E ov \in onMap : ov.cyc = c /\ ov.key = m)

\* C17 as amended: the cycle whose fetch hangs stays suspended at that
\* layer for ever: it fetches and adds no layer after it and never reports;
\* what it added before the hang stays as it is.
C17_Step ==
  \A c \in 1..MaxCycles : \A k \in Layers :
     cycles[c].seen[k] = "hung" =>
        /\ cycles[c].pc = "hung"
        /\ cycles[c].idx = PositionOf(k)
        /\ cycles'[c] = cycles[c]
        /\ \A ov \in onMap' : ov.cyc = c => PositionOf(ov.key) < PositionOf(k)

\* C17 as amended: every step satisfies C17_Step.
C17_HungFetchBlocksCycle == [][C17_Step]_vars

\* The first cycle hangs on presence with hotspots enabled; hotspots is on
\* the map only through a second cycle.
C17_Witness ==
  /\ cycles[1].pc = "hung"
  /\ cycles[1].idx = 1
  /\ checked["hotspots"]
  /\ cycles[2].pc = "done"
  /\ \E ov \in onMap : ov.cyc = 2 /\ ov.key = "hotspots"

\* C18 (view fitting): a refresh fits the view exactly when at least one
\* layer it added has a valid bounding box, and then to the union of those
\* boxes; a layer whose bounds are invalid, or whose bounds computation
\* throws, is still added, tracked and counted as loaded, its bounds are left
\* out, and the refresh goes on to the next layer or to its status report.
\* The fit is stated for a cycle that ran with no other cycle beside it.
AddedBy(c, map) == {ov \in map : ov.cyc = c}

C18_Step ==
  \A c \in 1..MaxCycles :
     /\ (cycles[c].pc = "fetch" /\ cycles'[c].pc = "done" /\ cycles[c].alone) =>
           LET boxes == {ov \in AddedBy(c, onMap') : ov.box = "valid"}
           IN  IF boxes # {} THEN view' = boxes ELSE view' = view
     /\ \A ov \in AddedBy(c, onMap') \ onMap :
           ov.box # "valid" =>
              /\ layersOnMap'[ov.key] = ov
              /\ cycles'[c].pc \in {"fetch", "done"}
              /\ cycles'[c].pc = "fetch" =>
                    /\ cycles'[c].loaded = cycles[c].loaded + 1
                    /\ cycles'[c].bounds = cycles[c].bounds
              /\ cycles'[c].pc = "done" =>
                    /\ status'.loaded = cycles[c].loaded + 1
                    /\ ~LoadingShown'
                    /\ ov \notin view'

\* C18: every step satisfies C18_Step.
C18_ViewFitting == [][C18_Step]_vars

\* presence has a valid box and hotspots none: both are on the map and
\* counted, and the view was fitted to presence alone.
C18_Witness ==
  /\ last.c # 0 /\ last.alone
  /\ status.loaded = 2
  /\ \E p \in AddedBy(last.c, onMap), h \in AddedBy(last.c, onMap) :
        /\ p.key = "presence" /\ p.box = "valid"
        /\ h.key = "hotspots" /\ h.box # "valid"
        /\ layersOnMap["hotspots"] = h
        /\ view = {p}

\* C19 (no orphaned overlays): every overlay on the map is referenced by
\* the page's tracking table (layersOnMap, or detectionsLayer on the
\* detections page), under any interleaving of refresh cycles.
C19_NoOrphanedOverlays ==
  \A ov \in onMap : ov \in Range(layersOnMap) \/ ov = detectionsLayer

\* C20 (date variant): whenever no refresh is in flight (and those that
\* were started have reported), every tracked overlay was built from the
\* file of the currently selected date with that date's lead time, and the
\* final status names the currently selected date, even when the date was
\* changed while an earlier refresh was awaiting a fetch.
C20_TrackedOverlaysOfSelectedDate ==
  (variant = "dates" /\ AllReturned) =>
     /\ \A k \in TrackedKeys(layersOnMap) :
           /\ layersOnMap[k].date = dateValue
           /\ layersOnMap[k].lead = LeadOf(dateValue, baseDate).days
     /\ status.date = dateValue

\* C21 (detections variant): whenever no loadDetections call is in flight
\* and the detections toggle is unchecked, no detections layer is on the
\* map, detectionsLayer is null and the status reads "Detections off.",
\* for any sequence of toggle and reload events, a toggle-off issued while
\* an earlier load awaits its fetch included.
C21_DetectionsOff ==
  (variant = "detections" /\ initPc = "ready" /\ InFlight(cycles) = {} /\ ~detectionsToggle) =>
     /\ onMap = {}
     /\ detectionsLayer = NoLayer
     /\ status.text = "Detections off."

\* C22 (histogram panel): after every completed histogram load the chart on
\* display corresponds to the document just loaded: there is a chart only
\* if that document was found and valid, and then it is the chart of that
\* document; a load that finds the document missing or invalid leaves no
\* chart of an earlier load next to its "not found" or format-error text.
C22_ChartOfLoadedDocument ==
  (variant = "ndvi" /\ lastEvent = "settled") =>
     IF last.doc.kind = "doc" /\ ~WrongShapeHistogram(last.doc)
       THEN /\ ndviChart # NoChart
            /\ ndviChart.bins = last.doc.bins
            /\ ndviChart.counts = last.doc.counts
       ELSE ndviChart = NoChart

====
